---------------------------- MODULE Spec2Model ----------------------------
(***************************************************************************)
(* A model of the BOTM entries bot (src/bot.py): the SQLite tables         *)
(* tickets, meta and ticket_log, the database functions that read and      *)
(* write them, and the slash-command handlers that call those functions.   *)
(*                                                                         *)
(* Handlers are coroutines of one asyncio event loop: a handler runs       *)
(* without interruption from one await to the next, and any other handler  *)
(* may run between two awaits.  Every database function opens a connection *)
(* of its own.  A writing function executes one statement, which takes     *)
(* SQLite's database-wide write lock and computes the new rows from the    *)
(* committed database, and then commits, which publishes the rows and      *)
(* releases the lock.  A reading function sees the committed database.     *)
(***************************************************************************)
EXTENDS Integers, Sequences, FiniteSets, TLC

VARIABLES
    tickets,     \* table tickets: user_id -> [amount, updated_at], one entry per row
    meta,        \* table meta: key -> value
    ticket_log,  \* table ticket_log, in id order
    db_writer,   \* the handler whose connection holds the write lock, or NoHandler
    clock,       \* what now_utc() returns
    hs,          \* per handler: the command it runs, its position and its locals
    applied,     \* history: the balance mutations in the order they committed; an "add"
                 \* entry holds the balance of its target before and after, a "zero"
                 \* entry the number of nonzero rows before and after; and the
                 \* set_last_reset calls that committed, each with its argument dt
    ncmds        \* history: number of commands started

vars == <<tickets, meta, ticket_log, db_writer, clock, hs, applied, ncmds>>

----------------------------------------------------------------------------
(* Bounds of the model *)

MaxCmds == 2
MaxUserArgs == 3
MaxClock == 2

\* range(8): the rounds of the reveal loop of roll_winner
REVEAL_STEPS == 8

LEADERBOARD_SIZE == 5

Users == {1, 2}
Handlers == {1, 2}
Amounts == {1, 2}

NoHandler == 0
NoUser == 0

----------------------------------------------------------------------------
(* Helpers *)

Max(a, b) == IF a >= b THEN a ELSE b

Min(a, b) == IF a <= b THEN a ELSE b

Range(s) == {s[i] : i \in 1..Len(s)}

RECURSIVE SeqSum(_)
SeqSum(s) == IF s = <<>> THEN 0 ELSE Head(s) + SeqSum(Tail(s))

RECURSIVE Repeat(_, _)
Repeat(x, n) == IF n <= 0 THEN <<>> ELSE <<x>> \o Repeat(x, n - 1)

Count(x, s) == Cardinality({i \in 1..Len(s) : s[i] = x})

RECURSIVE SetToSortedSeq(_)
SetToSortedSeq(S) ==
    IF S = {} THEN <<>>
    ELSE LET m == CHOOSE x \in S : \A y \in S : x <= y
         IN <<m>> \o SetToSortedSeq(S \ {m})

----------------------------------------------------------------------------
(* The database functions, as functions of the committed tables *)

\* datetime.now(timezone.utc), counted in ticks of the clock
now_utc == clock

\* The ticks of one second: a datetime is a whole number of seconds and a number of
\* microseconds, here a number of ticks, below one second
TicksPerSecond == 2

\* datetime.isoformat() of a UTC datetime, "YYYY-MM-DDTHH:MM:SS[.ffffff]+00:00": the text
\* has its fraction part only when the microseconds are not 0.  The text is held as the
\* tuple of its fields, <<seconds>> or <<seconds, fraction>>.
isoformat(dt) ==
    IF dt % TicksPerSecond = 0 THEN <<dt \div TicksPerSecond>>
    ELSE <<dt \div TicksPerSecond, dt % TicksPerSecond>>

\* datetime.fromisoformat(): a text without a fraction part has 0 microseconds
fromisoformat(s) ==
    IF Len(s) = 1 THEN s[1] * TicksPerSecond ELSE s[1] * TicksPerSecond + s[2]

\* SQLite's comparison of two TEXT values (BINARY collation) on isoformat texts: the
\* date and time fields are zero-padded digits, so they compare as numbers; with equal
\* seconds, "+" of a text without fraction is below "." of a text with one
TextLess(a, b) ==
    \/ a[1] < b[1]
    \/ /\ a[1] = b[1]
       /\ \/ Len(a) < Len(b)
          \/ Len(a) = 2 /\ Len(b) = 2 /\ a[2] < b[2]

\* INSERT ... ON CONFLICT(user_id) DO UPDATE SET amount = MAX(0, amount + excluded.amount):
\* a new row takes the inserted amount as it is, an existing row the clamped sum.
add_tickets(tbl, user_id, delta) ==
    IF user_id \in DOMAIN tbl
    THEN [tbl EXCEPT ![user_id] =
              [amount |-> Max(0, @.amount + delta), updated_at |-> isoformat(now_utc)]]
    ELSE [u \in DOMAIN tbl \cup {user_id} |->
              IF u = user_id THEN [amount |-> delta, updated_at |-> isoformat(now_utc)]
              ELSE tbl[u]]

\* Faulty variant of set_all_tickets_zero: DELETE FROM tickets
delete_all_tickets(tbl) == [u \in {} |-> [amount |-> 0, updated_at |-> isoformat(now_utc)]]

\* UPDATE tickets SET amount=0, updated_at=?
set_all_tickets_zero(tbl) ==
    [u \in DOMAIN tbl |-> [amount |-> 0, updated_at |-> isoformat(now_utc)]]

\* SELECT amount FROM tickets WHERE user_id=? ; 0 when there is no row
get_tickets(tbl, user_id) ==
    IF user_id \in DOMAIN tbl THEN tbl[user_id].amount ELSE 0

\* SELECT user_id, amount FROM tickets WHERE amount > 0, in rowid (user_id) order
all_positive_tickets(tbl) ==
    LET ids == SetToSortedSeq({u \in DOMAIN tbl : tbl[u].amount > 0})
    IN [i \in 1..Len(ids) |-> [uid |-> ids[i], amt |-> tbl[ids[i]].amount]]

\* The orders in which a SELECT ... WHERE amount > 0 ORDER BY <key> can return its
\* rows: row a is before row b whenever <<a, b>> is in before; rows of equal keys come
\* in either order
Orders(tbl, before) ==
    LET P == {u \in DOMAIN tbl : tbl[u].amount > 0}
    IN {s \in [1..Cardinality(P) -> P] :
          \A i, j \in 1..Cardinality(P) :
              i < j => (s[i] # s[j] /\ <<s[j], s[i]>> \notin before)}

\* The first rows of the order s, at most limit of them, as (user_id, amount)
Limit(tbl, s, limit) ==
    [i \in 1..Min(limit, Len(s)) |-> [uid |-> s[i], amt |-> tbl[s[i]].amount]]

\* Faulty variant of top_tickets: ORDER BY amount DESC only
top_tickets_by_amount(tbl, limit) ==
    LET before == {p \in (DOMAIN tbl) \X (DOMAIN tbl) : tbl[p[1]].amount > tbl[p[2]].amount}
    IN {Limit(tbl, s, limit) : s \in Orders(tbl, before)}

\* SELECT user_id, amount FROM tickets WHERE amount > 0
\* ORDER BY amount DESC, updated_at DESC LIMIT ? : the results the query can return
top_tickets(tbl, limit) ==
    LET before == {p \in (DOMAIN tbl) \X (DOMAIN tbl) :
                      \/ tbl[p[1]].amount > tbl[p[2]].amount
                      \/ /\ tbl[p[1]].amount = tbl[p[2]].amount
                         /\ TextLess(tbl[p[2]].updated_at, tbl[p[1]].updated_at)}
    IN {Limit(tbl, s, limit) : s \in Orders(tbl, before)}

\* SELECT COALESCE(SUM(amount), 0) FROM tickets WHERE amount > 0
total_entries(tbl) ==
    LET rows == all_positive_tickets(tbl)
    IN SeqSum([i \in 1..Len(rows) |-> rows[i].amt])

\* SELECT COUNT(*) FROM tickets WHERE amount > 0
total_participants(tbl) == Cardinality({u \in DOMAIN tbl : tbl[u].amount > 0})

\* UPDATE meta SET value=? WHERE key='last_reset_utc'
set_last_reset(m, dt) ==
    [k \in DOMAIN m |-> IF k = "last_reset_utc" THEN isoformat(dt) ELSE m[k]]

\* Faulty variant of init_db: INSERT OR REPLACE
init_db_replace(m) ==
    [k \in DOMAIN m \cup {"last_reset_utc"} |->
        IF k = "last_reset_utc" THEN isoformat(now_utc) ELSE m[k]]

\* init_db on a database whose tables exist:
\* INSERT OR IGNORE INTO meta(key, value) VALUES('last_reset_utc', now)
init_db(m) ==
    IF "last_reset_utc" \in DOMAIN m THEN m
    ELSE [k \in DOMAIN m \cup {"last_reset_utc"} |->
              IF k = "last_reset_utc" THEN isoformat(now_utc) ELSE m[k]]

\* SELECT value FROM meta WHERE key='last_reset_utc' ; the current time when no row
get_last_reset(m) ==
    IF "last_reset_utc" \in DOMAIN m THEN fromisoformat(m["last_reset_utc"])
    ELSE now_utc

\* INSERT INTO ticket_log (...) ; id is AUTOINCREMENT, rows are never deleted
log_ticket_action(log, actor_id, target_id, delta, cmd) ==
    Append(log, [id |-> Len(log) + 1, actor_id |-> actor_id, target_id |-> target_id,
                 delta |-> delta, created_at |-> isoformat(now_utc), cmd |-> cmd])

----------------------------------------------------------------------------
(* Handler state *)

NoReply ==
    [kind |-> "none", amt |-> 0, total |-> 0, members |-> <<>>, winner |-> NoUser]

Idle ==
    [cmd |-> "idle", id |-> 0, pc |-> "idle", actor |-> NoUser,
     user |-> NoUser, delta |-> 0, dups |-> FALSE, users |-> <<>>, i |-> 0,
     new_amt |-> 0, count |-> 0, dt |-> 0,
     amt |-> 0, mine |-> 0, total |-> 0, participants |-> 0, last |-> 0,
     rows |-> <<>>, population |-> <<>>, winner_id |-> NoUser,
     candidate |-> NoUser, step |-> 0, content |-> "",
     tx |-> <<>>, failed_at |-> "", reply |-> NoReply]

\* The lists of the user1..user10 arguments of give_bulk and remove_bulk
UserArgLists == UNION {[1..n -> Users] : n \in 1..MaxUserArgs}

\* The members a role command walks: the non-bot members holding the role, in fetch order
RoleMemberLists == {SetToSortedSeq(S) : S \in SUBSET Users}

SingleCmds == {"give", "remove"}
BulkCmds == {"give_bulk", "remove_bulk"}
RoleCmds == {"give_role", "remove_role"}

\* The calls that go to the database, where a store failure can surface
DbCalls == {"add_tickets", "get_tickets", "log_ticket_action",
            "set_all_tickets_zero", "set_last_reset", "all_positive_tickets",
            "get_last_reset", "top_tickets", "total_entries", "total_participants"}

\* Faulty variant of unique_users: the list is taken as supplied
all_users(users, seen) == users

\* unique_users: the users list without its later duplicates, first occurrences in order
RECURSIVE unique_users(_, _)
unique_users(users, seen) ==
    IF users = <<>> THEN <<>>
    ELSE IF Head(users) \in seen THEN unique_users(Tail(users), seen)
    ELSE <<Head(users)>> \o unique_users(Tail(users), seen \cup {Head(users)})

\* The identity the handler's current add_tickets / log_ticket_action is about
Target(s) == IF s.cmd \in SingleCmds THEN s.user ELSE s.users[s.i]

\* Where a handler goes when the call it awaited has returned
AfterCall(s) ==
    CASE s.cmd \in SingleCmds ->
            [s EXCEPT !.pc = CASE s.pc = "add_tickets" -> "get_tickets"
                              [] s.pc = "get_tickets" -> "log_ticket_action"
                              [] OTHER -> "send_message"]
      [] s.cmd \in BulkCmds \cup RoleCmds ->
            IF s.pc = "add_tickets" THEN [s EXCEPT !.pc = "log_ticket_action"]
            ELSE LET n == IF s.cmd \in RoleCmds THEN s.count + 1 ELSE s.count
                 IN IF s.i < Len(s.users)
                    THEN [s EXCEPT !.pc = "add_tickets", !.i = s.i + 1, !.count = n]
                    ELSE [s EXCEPT !.pc = "send_message", !.count = n]
      [] s.cmd = "reset_entries" ->
            IF s.pc = "set_all_tickets_zero"
            THEN [s EXCEPT !.pc = "set_last_reset", !.dt = now_utc]
            ELSE [s EXCEPT !.pc = "send_message"]
      [] OTHER -> s

\* Faulty variant of WriteLockFree: a statement does not wait for the write lock
WriteLockIgnored == TRUE

WriteLockFree == db_writer = NoHandler

CanStart(h) == hs[h].pc = "idle" /\ ncmds < MaxCmds

DbUnchanged == UNCHANGED <<tickets, meta, ticket_log>>

Begin(h, s) ==
    /\ CanStart(h)
    /\ hs' = [hs EXCEPT ![h] = [s EXCEPT !.id = ncmds + 1, !.actor = h]]
    /\ ncmds' = ncmds + 1
    /\ DbUnchanged
    /\ UNCHANGED <<db_writer, clock, applied>>

----------------------------------------------------------------------------
(* Command handlers: entry *)

\* Faulty variant of give: the audit record is written first, in place of the mutation
give_log_first(h) ==
    \E user \in Users, amount \in Amounts :
        Begin(h, [Idle EXCEPT !.cmd = "give", !.pc = "log_ticket_action",
                              !.user = user, !.delta = amount])

give(h) ==
    \E user \in Users, amount \in Amounts :
        Begin(h, [Idle EXCEPT !.cmd = "give", !.pc = "add_tickets",
                              !.user = user, !.delta = amount])

remove(h) ==
    \E user \in Users, amount \in Amounts :
        Begin(h, [Idle EXCEPT !.cmd = "remove", !.pc = "add_tickets",
                              !.user = user, !.delta = -amount])

give_bulk(h) ==
    \E users \in UserArgLists, amount \in Amounts :
        Begin(h, [Idle EXCEPT !.cmd = "give_bulk", !.pc = "add_tickets",
                              !.dups = (Len(unique_users(users, {})) < Len(users)),
                              !.users = unique_users(users, {}), !.i = 1,
                              !.delta = amount])

remove_bulk(h) ==
    \E users \in UserArgLists, amount \in Amounts :
        Begin(h, [Idle EXCEPT !.cmd = "remove_bulk", !.pc = "add_tickets",
                              !.dups = (Len(unique_users(users, {})) < Len(users)),
                              !.users = unique_users(users, {}), !.i = 1,
                              !.delta = -amount])

give_role(h) ==
    \E members \in RoleMemberLists, amount \in Amounts :
        Begin(h, [Idle EXCEPT !.cmd = "give_role", !.pc = "defer",
                              !.users = members, !.delta = amount])

remove_role(h) ==
    \E members \in RoleMemberLists, amount \in Amounts :
        Begin(h, [Idle EXCEPT !.cmd = "remove_role", !.pc = "defer",
                              !.users = members, !.delta = -amount])

\* Faulty variant of reset_entries: the epoch is stamped and the balances are left
reset_entries_stamp_first(h) ==
    Begin(h, [Idle EXCEPT !.cmd = "reset_entries", !.pc = "set_last_reset"])

reset_entries(h) ==
    Begin(h, [Idle EXCEPT !.cmd = "reset_entries", !.pc = "set_all_tickets_zero"])

roll_winner(h) ==
    Begin(h, [Idle EXCEPT !.cmd = "roll_winner", !.pc = "all_positive_tickets"])

\* entries, by the member user (interaction.user)
entries(h) ==
    \E user \in Users :
        Begin(h, [Idle EXCEPT !.cmd = "entries", !.pc = "get_tickets", !.user = user])

\* odds, by the member user (interaction.user)
odds(h) ==
    \E user \in Users :
        Begin(h, [Idle EXCEPT !.cmd = "odds", !.pc = "get_tickets", !.user = user])

total_entries_cmd(h) ==
    Begin(h, [Idle EXCEPT !.cmd = "total_entries_cmd", !.pc = "total_entries"])

leaderboard(h) ==
    Begin(h, [Idle EXCEPT !.cmd = "leaderboard", !.pc = "top_tickets"])

month(h) ==
    Begin(h, [Idle EXCEPT !.cmd = "month", !.pc = "get_last_reset"])

\* on_ready: init_db.  The CREATE TABLE IF NOT EXISTS statements leave existing tables
\* as they are; the INSERT OR IGNORE takes the write lock and is committed.  on_ready
\* fires at the first connection and again after every reconnect.
on_ready ==
    /\ WriteLockFree
    /\ meta' = init_db(meta)
    /\ UNCHANGED <<tickets, ticket_log, db_writer, clock, hs, applied, ncmds>>

\* Time passes
Tick ==
    /\ clock < MaxClock
    /\ clock' = clock + 1
    /\ UNCHANGED <<tickets, meta, ticket_log, db_writer, hs, applied, ncmds>>

----------------------------------------------------------------------------
(* Database calls of a handler *)

\* The connection's uncommitted image of the database after its statement
Image(tk, m, log) == [tickets |-> tk, meta |-> m, ticket_log |-> log]

\* db.execute of a writing function: takes the write lock, holds the new rows
Execute(h, img) ==
    /\ hs[h].tx = <<>>
    /\ WriteLockFree
    /\ db_writer' = h
    /\ hs' = [hs EXCEPT ![h].tx = <<img>>]
    /\ DbUnchanged
    /\ UNCHANGED <<clock, applied, ncmds>>

\* db.commit: publishes the connection's rows, releases the write lock, and the call returns
Commit(h, mutations) ==
    /\ hs[h].tx # <<>>
    /\ tickets' = hs[h].tx[1].tickets
    /\ meta' = hs[h].tx[1].meta
    /\ ticket_log' = hs[h].tx[1].ticket_log
    /\ db_writer' = IF db_writer = h THEN NoHandler ELSE db_writer
    /\ applied' = applied \o mutations
    /\ hs' = [hs EXCEPT ![h] = AfterCall([hs[h] EXCEPT !.tx = <<>>])]
    /\ UNCHANGED <<clock, ncmds>>

add_tickets_execute(h) ==
    /\ hs[h].pc = "add_tickets"
    /\ Execute(h, Image(add_tickets(tickets, Target(hs[h]), hs[h].delta), meta, ticket_log))

add_tickets_commit(h) ==
    /\ hs[h].pc = "add_tickets"
    /\ hs[h].tx # <<>>
    /\ Commit(h, <<[cmd |-> hs[h].id, op |-> "add", target |-> Target(hs[h]),
                    delta |-> hs[h].delta,
                    before |-> get_tickets(tickets, Target(hs[h])),
                    after |-> get_tickets(hs[h].tx[1].tickets, Target(hs[h]))]>>)

get_tickets_call(h) ==
    /\ hs[h].cmd \in SingleCmds
    /\ hs[h].pc = "get_tickets"
    /\ hs' = [hs EXCEPT ![h] =
                  AfterCall([hs[h] EXCEPT !.new_amt = get_tickets(tickets, hs[h].user)])]
    /\ DbUnchanged
    /\ UNCHANGED <<db_writer, clock, applied, ncmds>>

log_ticket_action_execute(h) ==
    /\ hs[h].pc = "log_ticket_action"
    /\ Execute(h, Image(tickets, meta,
                        log_ticket_action(ticket_log, hs[h].actor, Target(hs[h]),
                                          hs[h].delta, hs[h].id)))

log_ticket_action_commit(h) ==
    /\ hs[h].pc = "log_ticket_action"
    /\ hs[h].tx # <<>>
    /\ Commit(h, <<>>)

set_all_tickets_zero_execute(h) ==
    /\ hs[h].pc = "set_all_tickets_zero"
    /\ Execute(h, Image(set_all_tickets_zero(tickets), meta, ticket_log))

set_all_tickets_zero_commit(h) ==
    /\ hs[h].pc = "set_all_tickets_zero"
    /\ hs[h].tx # <<>>
    /\ Commit(h, <<[cmd |-> hs[h].id, op |-> "zero", target |-> NoUser,
                    delta |-> 0,
                    before |-> Cardinality({u \in DOMAIN tickets : tickets[u].amount # 0}),
                    after |-> 0]>>)

set_last_reset_execute(h) ==
    /\ hs[h].pc = "set_last_reset"
    /\ Execute(h, Image(tickets, set_last_reset(meta, hs[h].dt), ticket_log))

set_last_reset_commit(h) ==
    /\ hs[h].pc = "set_last_reset"
    /\ hs[h].tx # <<>>
    /\ Commit(h, <<[cmd |-> hs[h].id, op |-> "set_last_reset", target |-> NoUser,
                    delta |-> 0, before |-> 0, after |-> 0, dt |-> hs[h].dt]>>)

\* A call of a query handler returns: the handler keeps the result and goes on
Read(h, s) ==
    /\ hs' = [hs EXCEPT ![h] = s]
    /\ DbUnchanged
    /\ UNCHANGED <<db_writer, clock, applied, ncmds>>

\* entries: amt = await get_tickets(interaction.user.id)
entries_get_tickets(h) ==
    /\ hs[h].cmd = "entries"
    /\ hs[h].pc = "get_tickets"
    /\ Read(h, [hs[h] EXCEPT !.amt = get_tickets(tickets, hs[h].user),
                             !.pc = "send_message"])

\* odds: mine = await get_tickets(interaction.user.id)
odds_get_tickets(h) ==
    /\ hs[h].cmd = "odds"
    /\ hs[h].pc = "get_tickets"
    /\ Read(h, [hs[h] EXCEPT !.mine = get_tickets(tickets, hs[h].user),
                             !.pc = "total_entries"])

\* odds: total = await total_entries()
odds_total_entries(h) ==
    /\ hs[h].cmd = "odds"
    /\ hs[h].pc = "total_entries"
    /\ Read(h, [hs[h] EXCEPT !.total = total_entries(tickets), !.pc = "send_message"])

\* total_entries_cmd: total = await total_entries()
total_entries_call(h) ==
    /\ hs[h].cmd = "total_entries_cmd"
    /\ hs[h].pc = "total_entries"
    /\ Read(h, [hs[h] EXCEPT !.total = total_entries(tickets),
                             !.pc = "total_participants"])

\* total_entries_cmd: participants = await total_participants()
total_participants_call(h) ==
    /\ hs[h].cmd = "total_entries_cmd"
    /\ hs[h].pc = "total_participants"
    /\ Read(h, [hs[h] EXCEPT !.participants = total_participants(tickets),
                             !.pc = "send_message"])

\* leaderboard: rows = await top_tickets(LEADERBOARD_SIZE)
top_tickets_call(h) ==
    /\ hs[h].pc = "top_tickets"
    /\ \E rows \in top_tickets(tickets, LEADERBOARD_SIZE) :
          hs' = [hs EXCEPT ![h].rows = rows, ![h].pc = "send_message"]
    /\ DbUnchanged
    /\ UNCHANGED <<db_writer, clock, applied, ncmds>>

\* month: last = await get_last_reset()
get_last_reset_call(h) ==
    /\ hs[h].pc = "get_last_reset"
    /\ hs' = [hs EXCEPT ![h].last = get_last_reset(meta), ![h].pc = "send_message"]
    /\ DbUnchanged
    /\ UNCHANGED <<db_writer, clock, applied, ncmds>>

\* A database call raises (the store is unreachable, or the write lock timed out):
\* the connection's uncommitted rows are dropped and the exception ends the handler,
\* which has no except clause and sends nothing.
IOFailure(h) ==
    /\ hs[h].pc \in DbCalls
    /\ db_writer' = IF db_writer = h THEN NoHandler ELSE db_writer
    /\ hs' = [hs EXCEPT ![h].tx = <<>>, ![h].failed_at = hs[h].pc, ![h].pc = "failed"]
    /\ DbUnchanged
    /\ UNCHANGED <<clock, applied, ncmds>>

----------------------------------------------------------------------------
(* Command handlers: replies *)

Respond(h, r) ==
    /\ hs' = [hs EXCEPT ![h].reply = r, ![h].pc = "done"]
    /\ DbUnchanged
    /\ UNCHANGED <<db_writer, clock, applied, ncmds>>

\* give / remove: "New total: new_amt"
give_send(h) ==
    /\ hs[h].cmd \in SingleCmds
    /\ hs[h].pc = "send_message"
    /\ Respond(h, [NoReply EXCEPT !.kind = "new_total", !.amt = hs[h].new_amt])

\* give_bulk / remove_bulk: "Members: <mentions of unique_users>"
bulk_send(h) ==
    /\ hs[h].cmd \in BulkCmds
    /\ hs[h].pc = "send_message"
    /\ Respond(h, [NoReply EXCEPT !.kind = "bulk", !.members = hs[h].users])

\* give_role / remove_role: interaction.response.defer, then the member loop
role_defer(h) ==
    /\ hs[h].cmd \in RoleCmds
    /\ hs[h].pc = "defer"
    /\ hs' = [hs EXCEPT ![h].pc = IF hs[h].users = <<>> THEN "send_message" ELSE "add_tickets",
                        ![h].i = IF hs[h].users = <<>> THEN 0 ELSE 1]
    /\ DbUnchanged
    /\ UNCHANGED <<db_writer, clock, applied, ncmds>>

\* give_role / remove_role: "Awarded: count members"
role_followup(h) ==
    /\ hs[h].cmd \in RoleCmds
    /\ hs[h].pc = "send_message"
    /\ Respond(h, [NoReply EXCEPT !.kind = "role", !.amt = hs[h].count])

\* reset_entries: "reset all BOTM entries to 0"
reset_send(h) ==
    /\ hs[h].cmd = "reset_entries"
    /\ hs[h].pc = "send_message"
    /\ Respond(h, [NoReply EXCEPT !.kind = "reset"])

\* entries: "You currently have amt BOTM entries"
entries_send(h) ==
    /\ hs[h].cmd = "entries"
    /\ hs[h].pc = "send_message"
    /\ Respond(h, [NoReply EXCEPT !.kind = "entries", !.amt = hs[h].amt])

\* odds: "You currently have 0 entries" when mine <= 0, "The BOTM pool is empty" when
\* total <= 0, otherwise "You have mine entries out of total total" and the percentage
\* (mine / total) * 100
odds_send(h) ==
    /\ hs[h].cmd = "odds"
    /\ hs[h].pc = "send_message"
    /\ Respond(h, IF hs[h].mine <= 0 THEN [NoReply EXCEPT !.kind = "zero_entries"]
                  ELSE IF hs[h].total <= 0 THEN [NoReply EXCEPT !.kind = "pool_empty"]
                  ELSE [NoReply EXCEPT !.kind = "odds", !.amt = hs[h].mine,
                                       !.total = hs[h].total])

\* total_entries_cmd: "The BOTM pool is empty" when total = 0, otherwise
\* "total total BOTM entries in the pool across participants baddies"
total_entries_send(h) ==
    /\ hs[h].cmd = "total_entries_cmd"
    /\ hs[h].pc = "send_message"
    /\ Respond(h, IF hs[h].total = 0 THEN [NoReply EXCEPT !.kind = "pool_empty"]
                  ELSE [NoReply EXCEPT !.kind = "total_entries", !.total = hs[h].total,
                                       !.amt = hs[h].participants])

\* leaderboard: "No entries yet", or the numbered lines of rows
leaderboard_send(h) ==
    /\ hs[h].cmd = "leaderboard"
    /\ hs[h].pc = "send_message"
    /\ Respond(h, IF hs[h].rows = <<>> THEN [NoReply EXCEPT !.kind = "no_entries"]
                  ELSE [NoReply EXCEPT !.kind = "leaderboard",
                                       !.members = [i \in 1..Len(hs[h].rows) |->
                                                        hs[h].rows[i].uid]])

\* month: "Last reset (UTC): last"
month_send(h) ==
    /\ hs[h].cmd = "month"
    /\ hs[h].pc = "send_message"
    /\ Respond(h, [NoReply EXCEPT !.kind = "month", !.amt = hs[h].last])

\* Faulty variant of Population: each uid of rows once, whatever its amt
PopulationUnweighted(rows) == [i \in 1..Len(rows) |-> rows[i].uid]

\* population: each uid of rows, amt times over
RECURSIVE Population(_)
Population(rows) ==
    IF rows = <<>> THEN <<>>
    ELSE Repeat(Head(rows).uid, Head(rows).amt) \o Population(Tail(rows))

\* Faulty variant of roll_read: the draw goes on whatever rows were read
roll_read_any(h) ==
    /\ hs[h].cmd = "roll_winner"
    /\ hs[h].pc = "all_positive_tickets"
    /\ \E w \in Users :
          hs' = [hs EXCEPT ![h].rows = all_positive_tickets(tickets),
                           ![h].population = Population(all_positive_tickets(tickets)),
                           ![h].winner_id = w,
                           ![h].pc = "send_spinning"]
    /\ DbUnchanged
    /\ UNCHANGED <<db_writer, clock, applied, ncmds>>

\* Faulty variant of roll_read: the connection of the read keeps the database locked
roll_read_locked(h) ==
    /\ hs[h].cmd = "roll_winner"
    /\ hs[h].pc = "all_positive_tickets"
    /\ WriteLockFree
    /\ LET rows == all_positive_tickets(tickets)
       IN IF rows = <<>>
          THEN hs' = [hs EXCEPT ![h].pc = "send_no_entries"]
          ELSE \E w \in Range(Population(rows)) :
                  hs' = [hs EXCEPT ![h].rows = rows,
                                   ![h].population = Population(rows),
                                   ![h].winner_id = w,
                                   ![h].pc = "send_spinning"]
    /\ db_writer' = h
    /\ DbUnchanged
    /\ UNCHANGED <<clock, applied, ncmds>>

\* roll_winner: rows = await all_positive_tickets(); with no rows the handler goes to its
\* "no entries" reply, otherwise it builds the population and draws winner_id
\* (random.choice) before its next await
roll_read(h) ==
    /\ hs[h].cmd = "roll_winner"
    /\ hs[h].pc = "all_positive_tickets"
    /\ LET rows == all_positive_tickets(tickets)
       IN IF rows = <<>>
          THEN hs' = [hs EXCEPT ![h].pc = "send_no_entries"]
          ELSE \E w \in Range(Population(rows)) :
                  hs' = [hs EXCEPT ![h].rows = rows,
                                   ![h].population = Population(rows),
                                   ![h].winner_id = w,
                                   ![h].pc = "send_spinning"]
    /\ DbUnchanged
    /\ UNCHANGED <<db_writer, clock, applied, ncmds>>

\* roll_winner: "No one has entries yet"
roll_no_entries(h) ==
    /\ hs[h].cmd = "roll_winner"
    /\ hs[h].pc = "send_no_entries"
    /\ Respond(h, [NoReply EXCEPT !.kind = "no_entries"])

\* roll_winner: the "Spinning" message is sent and fetched back
roll_spin(h) ==
    /\ hs[h].cmd = "roll_winner"
    /\ hs[h].pc = "send_spinning"
    /\ hs' = [hs EXCEPT ![h].content = "spinning", ![h].pc = "reveal"]
    /\ DbUnchanged
    /\ UNCHANGED <<db_writer, clock, applied, ncmds>>

\* Faulty variant of roll_reveal: the round's draw is kept as the winner
roll_reveal_redraw(h) ==
    /\ hs[h].cmd = "roll_winner"
    /\ hs[h].pc = "reveal"
    /\ hs[h].step < REVEAL_STEPS
    /\ \E c \in Range(hs[h].population) :
          hs' = [hs EXCEPT ![h].candidate = c, ![h].winner_id = c,
                           ![h].step = hs[h].step + 1, ![h].content = "candidate"]
    /\ DbUnchanged
    /\ UNCHANGED <<db_writer, clock, applied, ncmds>>

\* Faulty variant of roll_reveal: the loop starts over at every round
roll_reveal_restart(h) ==
    /\ hs[h].cmd = "roll_winner"
    /\ hs[h].pc = "reveal"
    /\ hs[h].step < REVEAL_STEPS
    /\ \E c \in Range(hs[h].population) :
          hs' = [hs EXCEPT ![h].candidate = c, ![h].step = 1, ![h].content = "candidate"]
    /\ DbUnchanged
    /\ UNCHANGED <<db_writer, clock, applied, ncmds>>

\* roll_winner: one round of the reveal loop: a candidate is drawn, the handler sleeps,
\* and the message is edited to show the candidate
roll_reveal(h) ==
    /\ hs[h].cmd = "roll_winner"
    /\ hs[h].pc = "reveal"
    /\ hs[h].step < REVEAL_STEPS
    /\ \E c \in Range(hs[h].population) :
          hs' = [hs EXCEPT ![h].candidate = c, ![h].step = hs[h].step + 1,
                           ![h].content = "candidate"]
    /\ DbUnchanged
    /\ UNCHANGED <<db_writer, clock, applied, ncmds>>

\* Faulty variant of roll_announce: the announcement takes the winner's entries
roll_announce_consume(h) ==
    /\ hs[h].cmd = "roll_winner"
    /\ hs[h].pc = "reveal"
    /\ hs[h].step = REVEAL_STEPS
    /\ hs' = [hs EXCEPT ![h].content = "winner", ![h].pc = "done",
                        ![h].reply = [NoReply EXCEPT !.kind = "winner",
                                                     !.winner = hs[h].winner_id]]
    /\ tickets' = [u \in DOMAIN tickets |->
                      IF u = hs[h].winner_id
                      THEN [amount |-> 0, updated_at |-> isoformat(now_utc)]
                      ELSE tickets[u]]
    /\ UNCHANGED <<meta, ticket_log, db_writer, clock, applied, ncmds>>

\* roll_winner: after the loop, the last sleep and the edit that announces winner_id
roll_announce(h) ==
    /\ hs[h].cmd = "roll_winner"
    /\ hs[h].pc = "reveal"
    /\ hs[h].step = REVEAL_STEPS
    /\ hs' = [hs EXCEPT ![h].content = "winner", ![h].pc = "done",
                        ![h].reply = [NoReply EXCEPT !.kind = "winner",
                                                     !.winner = hs[h].winner_id]]
    /\ DbUnchanged
    /\ UNCHANGED <<db_writer, clock, applied, ncmds>>

\* The handler's coroutine has ended; the bot serves the next interaction
Finish(h) ==
    /\ hs[h].pc \in {"done", "failed"}
    /\ hs' = [hs EXCEPT ![h] = Idle]
    /\ DbUnchanged
    /\ UNCHANGED <<db_writer, clock, applied, ncmds>>

----------------------------------------------------------------------------
(* The ledger commands *)

Init ==
    /\ tickets = <<>>
    /\ meta = [k \in {"last_reset_utc"} |-> isoformat(0)]
    /\ ticket_log = <<>>
    /\ db_writer = NoHandler
    /\ clock = 0
    /\ hs = [h \in Handlers |-> Idle]
    /\ applied = <<>>
    /\ ncmds = 0

\* What every command's handler does after its entry
Steps(h) ==
    \/ add_tickets_execute(h)
    \/ add_tickets_commit(h)
    \/ log_ticket_action_execute(h)
    \/ log_ticket_action_commit(h)
    \/ IOFailure(h)

\* give, remove and reset_entries, by concurrent handlers
Next ==
    \E h \in Handlers :
        \/ give(h)
        \/ remove(h)
        \/ reset_entries(h)
        \/ get_tickets_call(h)
        \/ set_all_tickets_zero_execute(h)
        \/ set_all_tickets_zero_commit(h)
        \/ set_last_reset_execute(h)
        \/ set_last_reset_commit(h)
        \/ give_send(h)
        \/ reset_send(h)
        \/ Steps(h)
        \/ Finish(h)

Spec == Init /\ [][Next]_vars

\* Every command that changes the ledger, one command per handler
NextAll ==
    \E h \in Handlers :
        \/ give(h)
        \/ remove(h)
        \/ give_bulk(h)
        \/ remove_bulk(h)
        \/ give_role(h)
        \/ remove_role(h)
        \/ reset_entries(h)
        \/ get_tickets_call(h)
        \/ set_all_tickets_zero_execute(h)
        \/ set_all_tickets_zero_commit(h)
        \/ set_last_reset_execute(h)
        \/ set_last_reset_commit(h)
        \/ give_send(h)
        \/ bulk_send(h)
        \/ role_defer(h)
        \/ role_followup(h)
        \/ reset_send(h)
        \/ Steps(h)

SpecAll == Init /\ [][NextAll]_vars

\* The ledgers earlier commands can have left: per identity no row, or a row holding
\* an amount that give, remove and reset_entries can produce
SeedAmounts == {-1, 0, 1, 2}

SeedLedgers ==
    UNION {[S -> [amount : SeedAmounts, updated_at : {isoformat(0)}]] : S \in SUBSET Users}

InitRoll ==
    /\ tickets \in SeedLedgers
    /\ meta = [k \in {"last_reset_utc"} |-> isoformat(0)]
    /\ ticket_log = <<>>
    /\ db_writer = NoHandler
    /\ clock = 0
    /\ hs = [h \in Handlers |-> Idle]
    /\ applied = <<>>
    /\ ncmds = 0

\* roll_winner beside give, remove and reset_entries
NextRoll ==
    \E h \in Handlers :
        \/ roll_winner(h)
        \/ roll_read(h)
        \/ roll_no_entries(h)
        \/ roll_spin(h)
        \/ roll_reveal(h)
        \/ roll_announce(h)
        \/ give(h)
        \/ remove(h)
        \/ reset_entries(h)
        \/ get_tickets_call(h)
        \/ set_all_tickets_zero_execute(h)
        \/ set_all_tickets_zero_commit(h)
        \/ set_last_reset_execute(h)
        \/ set_last_reset_commit(h)
        \/ give_send(h)
        \/ reset_send(h)
        \/ Steps(h)

SpecRoll == InitRoll /\ [][NextRoll]_vars

\* The steps of roll_winner after its draw: they wait for the event loop and for
\* Discord only, and the event loop runs every coroutine that is ready
RollSteps(h) == roll_spin(h) \/ roll_reveal(h) \/ roll_announce(h)

SpecRollFair == SpecRoll /\ \A h \in Handlers : WF_vars(RollSteps(h))

\* A database file whose tables the first init_db has just created: no row anywhere
InitEpoch ==
    /\ tickets = <<>>
    /\ meta = <<>>
    /\ ticket_log = <<>>
    /\ db_writer = NoHandler
    /\ clock = 0
    /\ hs = [h \in Handlers |-> Idle]
    /\ applied = <<>>
    /\ ncmds = 0

\* on_ready, reset_entries, month and give, while time passes
NextEpoch ==
    \/ Tick
    \/ on_ready
    \/ \E h \in Handlers :
          \/ reset_entries(h)
          \/ month(h)
          \/ give(h)
          \/ set_all_tickets_zero_execute(h)
          \/ set_all_tickets_zero_commit(h)
          \/ set_last_reset_execute(h)
          \/ set_last_reset_commit(h)
          \/ get_last_reset_call(h)
          \/ get_tickets_call(h)
          \/ reset_send(h)
          \/ month_send(h)
          \/ give_send(h)
          \/ Steps(h)

SpecEpoch == InitEpoch /\ [][NextEpoch]_vars

\* The ledgers earlier commands can have left, each row with the time of its last update
BoardLedgers ==
    UNION {[S -> [amount : SeedAmounts, updated_at : {isoformat(dt) : dt \in 0..MaxClock}]] :
              S \in SUBSET Users}

InitBoard ==
    /\ tickets \in BoardLedgers
    /\ meta = [k \in {"last_reset_utc"} |-> isoformat(0)]
    /\ ticket_log = <<>>
    /\ db_writer = NoHandler
    /\ clock = MaxClock
    /\ hs = [h \in Handlers |-> Idle]
    /\ applied = <<>>
    /\ ncmds = 0

\* leaderboard beside give
NextBoard ==
    \E h \in Handlers :
        \/ leaderboard(h)
        \/ top_tickets_call(h)
        \/ leaderboard_send(h)
        \/ give(h)
        \/ get_tickets_call(h)
        \/ give_send(h)
        \/ Steps(h)

SpecBoard == InitBoard /\ [][NextBoard]_vars

\* What the handlers of the query commands do
Queries(h) ==
    \/ entries(h)
    \/ entries_get_tickets(h)
    \/ entries_send(h)
    \/ odds(h)
    \/ odds_get_tickets(h)
    \/ odds_total_entries(h)
    \/ odds_send(h)
    \/ total_entries_cmd(h)
    \/ total_entries_call(h)
    \/ total_participants_call(h)
    \/ total_entries_send(h)
    \/ leaderboard(h)
    \/ top_tickets_call(h)
    \/ leaderboard_send(h)
    \/ month(h)
    \/ get_last_reset_call(h)
    \/ month_send(h)

\* The query commands and roll_winner beside give, remove and reset_entries
NextQuery ==
    \E h \in Handlers :
        \/ Queries(h)
        \/ roll_winner(h)
        \/ roll_read(h)
        \/ roll_no_entries(h)
        \/ roll_spin(h)
        \/ roll_reveal(h)
        \/ roll_announce(h)
        \/ give(h)
        \/ remove(h)
        \/ reset_entries(h)
        \/ get_tickets_call(h)
        \/ set_all_tickets_zero_execute(h)
        \/ set_all_tickets_zero_commit(h)
        \/ set_last_reset_execute(h)
        \/ set_last_reset_commit(h)
        \/ give_send(h)
        \/ reset_send(h)
        \/ Steps(h)

SpecQuery == InitRoll /\ [][NextQuery]_vars

\* A ledger in which every identity holds an entry
InitPace ==
    /\ tickets = [u \in Users |-> [amount |-> 1, updated_at |-> isoformat(0)]]
    /\ meta = [k \in {"last_reset_utc"} |-> isoformat(0)]
    /\ ticket_log = <<>>
    /\ db_writer = NoHandler
    /\ clock = 0
    /\ hs = [h \in Handlers |-> Idle]
    /\ applied = <<>>
    /\ ncmds = 0

\* Every command: roll_winner and the queries beside every command that changes the
\* ledger
NextPace ==
    \E h \in Handlers :
        \/ Queries(h)
        \/ roll_winner(h)
        \/ roll_read(h)
        \/ roll_no_entries(h)
        \/ roll_spin(h)
        \/ roll_reveal(h)
        \/ roll_announce(h)
        \/ give(h)
        \/ remove(h)
        \/ give_bulk(h)
        \/ remove_bulk(h)
        \/ reset_entries(h)
        \/ get_tickets_call(h)
        \/ set_all_tickets_zero_execute(h)
        \/ set_all_tickets_zero_commit(h)
        \/ set_last_reset_execute(h)
        \/ set_last_reset_commit(h)
        \/ give_send(h)
        \/ bulk_send(h)
        \/ reset_send(h)
        \/ Steps(h)

SpecPace == InitPace /\ [][NextPace]_vars

----------------------------------------------------------------------------
(* Properties of the ledger *)

\* The positions of applied that changed or created the row of u
TouchedAt(u) ==
    {i \in 1..Len(applied) : applied[i].op = "zero" \/ applied[i].target = u}

\* The entry of applied made by the add_tickets of command c on u, if any
AddsOf(c, u) ==
    {i \in 1..Len(applied) :
        applied[i].op = "add" /\ applied[i].cmd = c /\ applied[i].target = u}

Clamp(prev, delta) == Max(0, prev + delta)

\* The clamped running sum of the add_tickets deltas applied to u, from balance 0
RECURSIVE ClampedSum(_, _)
ClampedSum(u, n) ==
    IF n = 0 THEN 0
    ELSE IF applied[n].op = "add" /\ applied[n].target = u
         THEN Clamp(ClampedSum(u, n - 1), applied[n].delta)
         ELSE ClampedSum(u, n - 1)

\* C1: every stored balance is >= 0 and get_tickets never returns a negative number,
\* after any sequence of commands on any identities, with or without a row before.
C1_BalanceNeverNegative ==
    \A u \in Users :
        /\ get_tickets(tickets, u) >= 0
        /\ u \in DOMAIN tickets => tickets[u].amount >= 0

\* C2: for an identity that starts with no row and is changed by add_tickets calls only,
\* the stored balance after each call is the clamped running sum max(0, prev + delta)
\* of the deltas applied so far, starting from 0.
C2_ClampedRunningSum ==
    \A u \in Users :
        (\A i \in 1..Len(applied) : applied[i].op = "add")
            => get_tickets(tickets, u) = ClampedSum(u, Len(applied))

\* Two add_tickets of different commands that committed one after the other on the
\* same identity, with nothing else touching the identity in between
ConsecutiveAdds(i, j) ==
    /\ i < j
    /\ applied[i].op = "add" /\ applied[j].op = "add"
    /\ applied[i].target = applied[j].target
    /\ applied[i].cmd # applied[j].cmd
    /\ \A k \in TouchedAt(applied[i].target) : ~(i < k /\ k < j)

\* C3: two add_tickets on one identity lose no update: the balance after the second
\* is the result of applying both deltas in one of the two serial orders, each step
\* clamped at zero; and what an add_tickets is about to commit is what its statement
\* gives on the committed table, so that no other write came between its read and
\* its write.
C3_NoLostUpdate ==
    /\ \A i, j \in 1..Len(applied) :
          ConsecutiveAdds(i, j) =>
              LET b == applied[i].before
                  di == applied[i].delta
                  dj == applied[j].delta
              IN applied[j].after \in {Clamp(Clamp(b, di), dj), Clamp(Clamp(b, dj), di)}
    /\ \A h \in Handlers :
          (hs[h].pc = "add_tickets" /\ hs[h].tx # <<>>) =>
              hs[h].tx[1].tickets = add_tickets(tickets, Target(hs[h]), hs[h].delta)

\* C3 witness: two commands that are both still running have each committed an
\* add_tickets on the same identity, and the order of the deltas matters.
C3_Witness ==
    \E i, j \in 1..Len(applied) :
        /\ ConsecutiveAdds(i, j)
        /\ \E h1, h2 \in Handlers :
              /\ h1 # h2
              /\ hs[h1].id = applied[i].cmd /\ hs[h1].pc \notin {"idle", "done", "failed"}
              /\ hs[h2].id = applied[j].cmd /\ hs[h2].pc \notin {"idle", "done", "failed"}
        /\ applied[i].delta > 0 /\ applied[j].delta < 0
        /\ applied[j].after = 0

\* C4: the "New total" a give or remove reports is the balance its own add_tickets
\* produced, max(0, balance before + delta), whatever other commands run beside it.
C4_NewTotalIsOwnResult ==
    \A h \in Handlers :
        hs[h].reply.kind = "new_total" =>
            \A i \in AddsOf(hs[h].id, hs[h].user) :
                applied[i].after = Clamp(applied[i].before, applied[i].delta)
                    => hs[h].reply.amt = applied[i].after

\* C5: a command that has completed has written an audit record for every balance
\* change it committed.
C5_EveryMutationAudited ==
    \A h \in Handlers :
        hs[h].pc = "done" =>
            \A i \in 1..Len(applied) :
                (applied[i].cmd = hs[h].id /\ applied[i].before # applied[i].after)
                    => \E k \in 1..Len(ticket_log) : ticket_log[k].cmd = hs[h].id

\* The audit records command c wrote about u
LogsOf(c, u) ==
    {k \in 1..Len(ticket_log) : ticket_log[k].cmd = c /\ ticket_log[k].target_id = u}

\* C6: an audit record is written only after the balance mutation it describes has
\* committed (no handler is at its audit write, and no audit record is stored, without
\* the committed mutation of the same command on the same identity), and an audit
\* write that fails leaves the ledger and the committed mutations as they are.
C6_AuditAfterCommit ==
    /\ [](/\ \A h \in Handlers :
                hs[h].pc = "log_ticket_action" => AddsOf(hs[h].id, Target(hs[h])) # {}
          /\ \A k \in 1..Len(ticket_log) :
                \E i \in AddsOf(ticket_log[k].cmd, ticket_log[k].target_id) :
                    applied[i].delta = ticket_log[k].delta)
    /\ [][\A h \in Handlers :
            (hs[h].pc = "log_ticket_action" /\ hs'[h].pc = "failed")
                => (tickets' = tickets /\ applied' = applied)]_vars

\* C6 witness: the audit write of a command failed; its mutation is committed, the
\* balance it produced is in the ledger, and no audit record of it exists.
C6_Witness ==
    \E h \in Handlers :
        /\ hs[h].pc = "failed" /\ hs[h].failed_at = "log_ticket_action"
        /\ hs[h].cmd \in SingleCmds
        /\ \E i \in AddsOf(hs[h].id, hs[h].user) :
              /\ applied[i].after > 0
              /\ get_tickets(tickets, hs[h].user) = applied[i].after
        /\ LogsOf(hs[h].id, hs[h].user) = {}

\* C7: a bulk or role command whose add_tickets fails on one identity, after earlier
\* identities succeeded, reports to the caller the prefix of identities that succeeded.
C7_PartialFailureReported ==
    \A h \in Handlers :
        (/\ hs[h].cmd \in BulkCmds \cup RoleCmds
         /\ hs[h].pc = "failed"
         /\ hs[h].failed_at = "add_tickets"
         /\ hs[h].i > 1)
            => /\ hs[h].reply.kind = "partial"
               /\ hs[h].reply.members = SubSeq(hs[h].users, 1, hs[h].i - 1)

\* The position of the first occurrence of u in the list s
FirstIndex(s, u) == CHOOSE i \in 1..Len(s) : s[i] = u /\ \A j \in 1..(i - 1) : s[j] # u

\* unique_users holds each identity of the supplied list once, in first-occurrence order
UniqueUsersFirstOccurrence ==
    \A args \in UserArgLists :
        LET U == unique_users(args, {})
        IN /\ Range(U) = Range(args)
           /\ \A i, j \in 1..Len(U) : i # j => U[i] # U[j]
           /\ \A i, j \in 1..Len(U) :
                 i < j => FirstIndex(args, U[i]) < FirstIndex(args, U[j])

\* C8: give_bulk and remove_bulk apply the delta once to each distinct identity of the
\* supplied list, in first-occurrence order, whatever duplicates it holds: a command
\* that has completed made one add_tickets and one audit record per distinct identity,
\* none for any other, in the order of the list, and replied without an error.
C8_BulkOncePerIdentity ==
    /\ UniqueUsersFirstOccurrence
    /\ \A h \in Handlers :
          (hs[h].cmd \in BulkCmds /\ hs[h].pc = "done") =>
              /\ \A u \in Users :
                    /\ Cardinality(AddsOf(hs[h].id, u))
                          = Count(u, hs[h].users)
                    /\ Cardinality(LogsOf(hs[h].id, u))
                          = Cardinality(AddsOf(hs[h].id, u))
                    /\ Count(u, hs[h].users) <= 1
              /\ \A a, b \in 1..Len(hs[h].users) :
                    a < b => \A i \in AddsOf(hs[h].id, hs[h].users[a]),
                                j \in AddsOf(hs[h].id, hs[h].users[b]) : i < j
              /\ hs[h].reply.kind = "bulk"
              /\ hs[h].reply.members = hs[h].users

\* C8 witness: a bulk command whose list held a duplicate has completed, with one
\* add_tickets for each of its two distinct identities.
C8_Witness ==
    \E h \in Handlers :
        /\ hs[h].cmd \in BulkCmds /\ hs[h].pc = "done"
        /\ hs[h].dups
        /\ Len(hs[h].users) = 2
        /\ \A u \in Users : Cardinality(AddsOf(hs[h].id, u)) = 1

----------------------------------------------------------------------------
(* Properties of the draw *)

\* The handler has drawn its winner and not yet announced it
RollDrawn(s) == s.cmd = "roll_winner" /\ s.pc \in {"send_spinning", "reveal"}

RollAnnounced(s) == s.cmd = "roll_winner" /\ s.reply.kind = "winner"

\* C9: the winner is drawn before the first reveal step and never again: from the draw
\* to the announcement no step changes winner_id, and the identity announced, after
\* all the reveal rounds, is winner_id.
C9_WinnerFixedBeforeReveal ==
    /\ [](\A h \in Handlers :
            /\ (hs[h].cmd = "roll_winner" /\ hs[h].content # "")
                  => hs[h].winner_id \in Range(hs[h].population)
            /\ RollAnnounced(hs[h])
                  => /\ hs[h].reply.winner = hs[h].winner_id
                     /\ hs[h].step = REVEAL_STEPS)
    /\ [][\A h \in Handlers :
            RollDrawn(hs[h]) => hs'[h].winner_id = hs[h].winner_id]_vars

\* C9 witness: a winner is announced whose entries were taken away during the reveal
\* and who was not the candidate shown last.
C9_Witness ==
    \E h \in Handlers :
        /\ RollAnnounced(hs[h])
        /\ hs[h].candidate # hs[h].reply.winner
        /\ get_tickets(tickets, hs[h].reply.winner) = 0
        /\ Len(applied) > 0

\* The amount rows holds for u, 0 when rows has no row of u
RowAmount(rows, u) ==
    IF \E i \in 1..Len(rows) : rows[i].uid = u
    THEN rows[CHOOSE i \in 1..Len(rows) : rows[i].uid = u].amt
    ELSE 0

\* C10: the population of the draw holds each identity as many times as its balance in
\* the all_positive_tickets snapshot and nothing else: its length is the sum of the
\* snapshot's balances, every balance of the snapshot is positive, the winner is one of
\* the snapshot's identities; and the snapshot is the positive balances of the ledger at
\* the time of the read.
C10_PopulationWeightedBySnapshot ==
    /\ [](\A h \in Handlers :
            (RollDrawn(hs[h]) \/ RollAnnounced(hs[h])) =>
                /\ \A i \in 1..Len(hs[h].rows) : hs[h].rows[i].amt > 0
                /\ Len(hs[h].population)
                      = SeqSum([i \in 1..Len(hs[h].rows) |-> hs[h].rows[i].amt])
                /\ \A u \in Users :
                      Count(u, hs[h].population) = RowAmount(hs[h].rows, u)
                /\ RowAmount(hs[h].rows, hs[h].winner_id) > 0)
    /\ [][\A h \in Handlers :
            (hs[h].pc = "all_positive_tickets" /\ hs'[h].pc = "send_spinning") =>
                \A u \in Users :
                    Count(u, hs'[h].population) = Max(0, get_tickets(tickets, u))]_vars

\* C10 witness: a draw over two identities, one holding 2 and one holding 1, won by
\* the one holding 1.
C10_Witness ==
    \E h \in Handlers :
        /\ RollDrawn(hs[h])
        /\ Len(hs[h].rows) = 2
        /\ hs[h].rows[1].amt = 2 /\ hs[h].rows[2].amt = 1
        /\ hs[h].winner_id = hs[h].rows[2].uid
        /\ Len(hs[h].population) = 3

\* No identity holds a positive balance
EmptyPool == \A u \in Users : get_tickets(tickets, u) <= 0

\* C11: when no identity holds a positive balance, roll_winner reports the no-entries
\* condition: the read of an empty pool leads to the no-entries reply (or to the end of
\* the handler, when the read itself failed), the only step after it is that reply, and
\* a roll that found no entries has no winner, no population, no candidate and no
\* reveal message.
C11_EmptyPoolNoWinner ==
    /\ [](\A h \in Handlers :
            (hs[h].pc = "send_no_entries" \/ hs[h].reply.kind = "no_entries") =>
                /\ hs[h].winner_id = NoUser /\ hs[h].candidate = NoUser
                /\ hs[h].population = <<>> /\ hs[h].rows = <<>>
                /\ hs[h].content = "" /\ hs[h].step = 0
                /\ hs[h].reply.winner = NoUser)
    /\ [][\A h \in Handlers :
            /\ (hs[h].pc = "all_positive_tickets" /\ EmptyPool /\ hs'[h] # hs[h])
                  => hs'[h].pc \in {"send_no_entries", "failed"}
            /\ (hs[h].pc = "send_no_entries" /\ hs'[h] # hs[h])
                  => (hs'[h].pc = "done" /\ hs'[h].reply.kind = "no_entries")]_vars

\* C11 witness: a roll right after a reset that zeroed a ledger with entries in it
\* has replied that there are no entries.
C11_Witness ==
    \E h \in Handlers :
        /\ hs[h].cmd = "roll_winner" /\ hs[h].reply.kind = "no_entries"
        /\ DOMAIN tickets # {}
        /\ Len(applied) > 0
        /\ applied[Len(applied)].op = "zero" /\ applied[Len(applied)].before > 0

----------------------------------------------------------------------------
(* Properties of the reset and of the epoch *)

\* The entries of applied made by the set_all_tickets_zero of command c
ZerosOf(c) == {i \in 1..Len(applied) : applied[i].op = "zero" /\ applied[i].cmd = c}

\* The entries of applied made by the set_last_reset of command c
StampsOf(c) ==
    {i \in 1..Len(applied) : applied[i].op = "set_last_reset" /\ applied[i].cmd = c}

\* C12: reset_entries zeroes the balances before it stamps the epoch: every committed
\* set_last_reset, and every reset_entries that has reached its set_last_reset, comes
\* after the committed set_all_tickets_zero of the same command; a failure of
\* set_last_reset changes neither the ledger nor the epoch and leaves the zeroing
\* committed; a failure of set_all_tickets_zero changes neither, and the command never
\* stamps the epoch.
C12_BalancesThenEpoch ==
    /\ [](/\ \A i \in 1..Len(applied) :
                applied[i].op = "set_last_reset" =>
                    \E j \in ZerosOf(applied[i].cmd) : j < i
          /\ \A h \in Handlers :
                /\ (hs[h].cmd = "reset_entries"
                        /\ (hs[h].pc \in {"set_last_reset", "send_message", "done"}
                             \/ hs[h].failed_at = "set_last_reset"))
                      => ZerosOf(hs[h].id) # {}
                /\ hs[h].failed_at = "set_all_tickets_zero"
                      => (ZerosOf(hs[h].id) = {} /\ StampsOf(hs[h].id) = {}))
    /\ [][\A h \in Handlers :
            (hs[h].pc \in {"set_all_tickets_zero", "set_last_reset"}
                /\ hs'[h].pc = "failed")
                  => (tickets' = tickets /\ meta' = meta /\ applied' = applied)]_vars

\* C12 witness: the set_last_reset of a reset failed after its set_all_tickets_zero had
\* zeroed a balance: the balances are reset, and the epoch is the one stored before,
\* older than the reset.
C12_Witness ==
    \E h \in Handlers :
        /\ hs[h].cmd = "reset_entries" /\ hs[h].failed_at = "set_last_reset"
        /\ \E i \in ZerosOf(hs[h].id) : applied[i].before > 0
        /\ DOMAIN tickets # {} /\ \A u \in DOMAIN tickets : tickets[u].amount = 0
        /\ "last_reset_utc" \in DOMAIN meta
        /\ get_last_reset(meta) < hs[h].dt
        /\ StampsOf(hs[h].id) = {}

\* The ledger is as set_all_tickets_zero leaves it
AllZero(tbl) ==
    /\ \A u \in Users : get_tickets(tbl, u) = 0
    /\ \A u \in DOMAIN tbl : tbl[u].amount = 0
    /\ total_entries(tbl) = 0
    /\ total_participants(tbl) = 0

\* The positions of applied that hold a change of the ledger
Mutations == {i \in 1..Len(applied) : applied[i].op \in {"add", "zero"}}

\* C13: when set_all_tickets_zero commits, and from then until the next add_tickets
\* commits, get_tickets is 0 for every identity, total_entries is 0 and
\* total_participants is 0; the commit leaves the set of identities that have a row as
\* it was.
C13_ResetZeroesKeepsRows ==
    /\ [](\A i \in Mutations :
            (applied[i].op = "zero" /\ \A j \in Mutations : j <= i) => AllZero(tickets))
    /\ [][\A h \in Handlers :
            (hs[h].pc = "set_all_tickets_zero" /\ hs'[h].pc = "set_last_reset")
                => (AllZero(tickets') /\ DOMAIN tickets' = DOMAIN tickets)]_vars

\* C13 witness: the last change of the ledger is a reset that zeroed a ledger of two
\* rows, one of them with entries in it, and both rows are still there.
C13_Witness ==
    /\ Mutations # {}
    /\ \E i \in Mutations :
          /\ applied[i].op = "zero" /\ applied[i].before > 0
          /\ \A j \in Mutations : j <= i
    /\ DOMAIN tickets = Users
    /\ total_entries(tickets) = 0

\* The set_last_reset that committed last, as a set of at most one position of applied
LastStamp ==
    {i \in 1..Len(applied) :
        /\ applied[i].op = "set_last_reset"
        /\ \A j \in 1..Len(applied) : applied[j].op = "set_last_reset" => j <= i}

\* C14: get_last_reset returns the argument t of the set_last_reset that committed last,
\* in every state of the epoch store, with or without a stored record; and it returns
\* the current time when no record is stored and no set_last_reset has committed.
C14_LastResetRoundTrip ==
    [][\A h \in Handlers :
        (hs[h].pc = "get_last_reset" /\ hs'[h].pc = "send_message") =>
            /\ \A i \in LastStamp : hs'[h].last = applied[i].dt
            /\ ("last_reset_utc" \notin DOMAIN meta /\ LastStamp = {})
                  => hs'[h].last = now_utc]_vars

\* The last-reset record is stored
Initialized(m) == "last_reset_utc" \in DOMAIN m

\* C15: table meta never holds a record other than the last-reset one; the record is
\* created by init_db with the time of that init_db, by a step that changes no balance,
\* no audit record and no handler; once stored it is never deleted, and it changes only
\* when the set_last_reset of a reset_entries commits, so that an init_db repeated by a
\* later on_ready changes nothing.
C15_OneEpochRecord ==
    /\ [](DOMAIN meta \subseteq {"last_reset_utc"})
    /\ [][/\ Initialized(meta) => Initialized(meta')
          /\ (~Initialized(meta) /\ Initialized(meta'))
                => /\ meta'["last_reset_utc"] = isoformat(now_utc)
                   /\ UNCHANGED <<tickets, ticket_log, hs, applied>>
          /\ (Initialized(meta) /\ meta' # meta)
                => \E h \in Handlers :
                      /\ hs[h].cmd = "reset_entries" /\ hs[h].pc = "set_last_reset"
                      /\ hs'[h].pc = "send_message"
                      /\ meta'["last_reset_utc"] = isoformat(hs[h].dt)
                      /\ UNCHANGED <<tickets, ticket_log>>]_vars

\* C15 witness: the record of the first init_db is stored and is older than the current
\* time, no reset has stamped it, a balance and an audit record exist, and no
\* connection holds the write lock: a repeated init_db can run and would show.
C15_Witness ==
    /\ Initialized(meta)
    /\ get_last_reset(meta) < now_utc
    /\ LastStamp = {}
    /\ \E u \in DOMAIN tickets : tickets[u].amount > 0
    /\ ticket_log # <<>>
    /\ db_writer = NoHandler

----------------------------------------------------------------------------
(* Properties of the queries *)

\* The time of the last update of the row of u
UpdatedAt(tbl, u) == fromisoformat(tbl[u].updated_at)

\* rows is a leaderboard of tbl of at most k rows: rows of tbl with balance > 0, no
\* identity twice, by balance descending and, among equal balances, the most recently
\* updated first; as many rows as tbl has with balance > 0, up to k; and no row left
\* out has a higher balance than a row returned
IsTop(tbl, rows, k) ==
    /\ Len(rows) = Min(k, total_participants(tbl))
    /\ \A i \in 1..Len(rows) :
          /\ rows[i].uid \in DOMAIN tbl
          /\ rows[i].amt = tbl[rows[i].uid].amount
          /\ rows[i].amt > 0
          /\ \A u \in DOMAIN tbl :
                (\A j \in 1..Len(rows) : rows[j].uid # u) => tbl[u].amount <= rows[i].amt
    /\ \A i, j \in 1..Len(rows) :
          i < j =>
              /\ rows[i].uid # rows[j].uid
              /\ rows[i].amt >= rows[j].amt
              /\ rows[i].amt = rows[j].amt
                    => UpdatedAt(tbl, rows[i].uid) >= UpdatedAt(tbl, rows[j].uid)

\* Balances {A:10, B:0, C:5}, with A = 1, B = 2, C = 3
ExampleLedger ==
    [u \in {1, 2, 3} |->
        [amount |-> CASE u = 1 -> 10 [] u = 2 -> 0 [] OTHER -> 5,
         updated_at |-> isoformat(0)]]

\* C16: top_tickets(k) returns at most k rows, each with balance > 0, by balance
\* descending and, among equal balances, by last-update time descending, for every k
\* and every ledger; the rows a leaderboard command has read are ordered so; and for
\* balances {A:10, B:0, C:5}, top_tickets(2) is [(A,10), (C,5)].
C16_TopTicketsOrdered ==
    /\ \A k \in 0..LEADERBOARD_SIZE :
          /\ top_tickets(tickets, k) # {}
          /\ \A rows \in top_tickets(tickets, k) : Len(rows) <= k /\ IsTop(tickets, rows, k)
    /\ \A h \in Handlers :
          (hs[h].cmd = "leaderboard" /\ hs[h].pc \in {"send_message", "done"}) =>
              /\ Len(hs[h].rows) <= LEADERBOARD_SIZE
              /\ \A i, j \in 1..Len(hs[h].rows) :
                    i <= j => (hs[h].rows[i].amt >= hs[h].rows[j].amt /\ hs[h].rows[j].amt > 0)
    /\ top_tickets(ExampleLedger, 2) = {<<[uid |-> 1, amt |-> 10], [uid |-> 3, amt |-> 5]>>}

\* C16 witness: a leaderboard has read two rows of equal balance that were updated in
\* the same second, the first of them (its text has a fraction part) later than the
\* second (whose text has none); top_tickets(1) of this ledger is the later row alone.
C16_Witness ==
    \E h \in Handlers :
        /\ hs[h].cmd = "leaderboard" /\ hs[h].pc = "done"
        /\ Len(hs[h].rows) = 2
        /\ hs[h].rows[1].amt = hs[h].rows[2].amt
        /\ hs[h].rows[1].amt = tickets[hs[h].rows[1].uid].amount
        /\ hs[h].rows[2].amt = tickets[hs[h].rows[2].uid].amount
        /\ Len(tickets[hs[h].rows[1].uid].updated_at) = 2
        /\ Len(tickets[hs[h].rows[2].uid].updated_at) = 1
        /\ tickets[hs[h].rows[1].uid].updated_at[1] = tickets[hs[h].rows[2].uid].updated_at[1]
        /\ top_tickets(tickets, 1) = {<<hs[h].rows[1]>>}

\* C18: a roll_winner that has drawn its winner makes exactly 8 reveal edits, one per
\* round, each showing a candidate of the population built from the rows read at the
\* start of the roll, then announces once and ends: the round counter goes up by one
\* at every round and never back, the rows and the population stay as read, the
\* announcement comes at round 8 and is the handler's last step, and every roll that
\* has drawn reaches its announcement.
C18_RevealEightThenAnnounce ==
    /\ REVEAL_STEPS = 8
    /\ [](\A h \in Handlers :
            hs[h].cmd = "roll_winner" =>
                /\ hs[h].step \in 0..REVEAL_STEPS
                /\ hs[h].population = Population(hs[h].rows)
                /\ hs[h].content = "candidate"
                      => (hs[h].step >= 1 /\ hs[h].candidate \in Range(hs[h].population))
                /\ hs[h].content = "winner"
                      => (hs[h].step = REVEAL_STEPS /\ hs[h].pc = "done"
                          /\ RollAnnounced(hs[h])))
    /\ [][\A h \in Handlers :
            (hs[h].cmd = "roll_winner" /\ hs'[h] # hs[h]) =>
                /\ hs[h].pc # "done"
                /\ RollDrawn(hs[h])
                      => (hs'[h].rows = hs[h].rows /\ hs'[h].population = hs[h].population)
                /\ (hs[h].pc = "reveal" /\ hs'[h].pc = "reveal")
                      => (hs'[h].step = hs[h].step + 1 /\ hs'[h].content = "candidate")
                /\ hs'[h].pc # "reveal" => hs'[h].step = hs[h].step]_vars
    /\ \A h \in Handlers : RollDrawn(hs[h]) ~> RollAnnounced(hs[h])

\* C18 witness: a roll over a population of two identities has announced its winner
\* after 8 rounds, the last of which showed the winner as candidate.
C18_Witness ==
    \E h \in Handlers :
        /\ RollAnnounced(hs[h])
        /\ hs[h].step = 8
        /\ Cardinality(Range(hs[h].population)) = 2
        /\ hs[h].candidate = hs[h].reply.winner
        /\ hs[h].content = "winner"

\* A command that handler h can start
StartCommand(h) ==
    \/ give(h) \/ remove(h) \/ give_bulk(h) \/ remove_bulk(h) \/ reset_entries(h)
    \/ entries(h) \/ odds(h) \/ total_entries_cmd(h) \/ leaderboard(h) \/ month(h)

\* The step with which handler h goes on with its command without a failure
Proceed(h) ==
    \/ add_tickets_execute(h) \/ add_tickets_commit(h)
    \/ log_ticket_action_execute(h) \/ log_ticket_action_commit(h)
    \/ set_all_tickets_zero_execute(h) \/ set_all_tickets_zero_commit(h)
    \/ set_last_reset_execute(h) \/ set_last_reset_commit(h)
    \/ get_tickets_call(h) \/ give_send(h) \/ bulk_send(h) \/ reset_send(h)
    \/ entries_get_tickets(h) \/ entries_send(h)
    \/ odds_get_tickets(h) \/ odds_total_entries(h) \/ odds_send(h)
    \/ total_entries_call(h) \/ total_participants_call(h) \/ total_entries_send(h)
    \/ top_tickets_call(h) \/ leaderboard_send(h)
    \/ get_last_reset_call(h) \/ month_send(h)

\* C19: while a roll_winner is between its draw and its announcement it holds no
\* transaction and no lock, and the other handler is not held up by it: when idle it
\* can start each of give, remove, the bulk commands, reset_entries and the queries,
\* and when it runs one of them its next step, a statement or a commit or a read or a
\* reply, can be taken.
C19_RevealDoesNotBlock ==
    \A h \in Handlers :
        RollDrawn(hs[h]) =>
            /\ hs[h].tx = <<>>
            /\ db_writer # h
            /\ \A o \in Handlers \ {h} :
                  /\ hs[o].pc = "idle" =>
                        /\ ENABLED give(o) /\ ENABLED remove(o)
                        /\ ENABLED give_bulk(o) /\ ENABLED remove_bulk(o)
                        /\ ENABLED reset_entries(o)
                        /\ ENABLED entries(o) /\ ENABLED odds(o)
                        /\ ENABLED total_entries_cmd(o)
                        /\ ENABLED leaderboard(o) /\ ENABLED month(o)
                  /\ (hs[o].pc \notin {"idle", "done", "failed"}
                        /\ hs[o].cmd # "roll_winner")
                        => ENABLED Proceed(o)

\* C19 witness: a roll is in the middle of its reveal, and a bulk command of the
\* other handler has completed and changed a balance that the roll had read.
C19_Witness ==
    \E h, o \in Handlers :
        /\ hs[h].cmd = "roll_winner" /\ hs[h].pc = "reveal"
        /\ hs[h].step \in 1..(REVEAL_STEPS - 1)
        /\ hs[o].cmd \in BulkCmds /\ hs[o].pc = "done"
        /\ \E u \in Users :
              /\ AddsOf(hs[o].id, u) # {}
              /\ get_tickets(tickets, u) # RowAmount(hs[h].rows, u)

QueryCmds == {"entries", "odds", "total_entries_cmd", "leaderboard", "month"}

\* C17: no step of a handler that runs a query command or roll_winner changes the
\* ledger, the last-reset value or the audit log, nor takes the write lock; such a
\* handler never holds a transaction.
C17_QueriesReadOnly ==
    /\ [](\A h \in Handlers :
            hs[h].cmd \in QueryCmds \cup {"roll_winner"}
                => (hs[h].tx = <<>> /\ db_writer # h))
    /\ [][\A h \in Handlers :
            (hs'[h] # hs[h] /\ hs'[h].cmd \in QueryCmds \cup {"roll_winner"})
                => UNCHANGED <<tickets, meta, ticket_log, db_writer>>]_vars

\* C17 witness: a winner is announced and still holds the entries the draw found, while
\* the other handler has reported odds.
C17_Witness ==
    \E h, q \in Handlers :
        /\ RollAnnounced(hs[h])
        /\ get_tickets(tickets, hs[h].reply.winner) = RowAmount(hs[h].rows, hs[h].reply.winner)
        /\ get_tickets(tickets, hs[h].reply.winner) > 0
        /\ hs[q].cmd = "odds" /\ hs[q].reply.kind = "odds"

\* C20: whenever odds reports a member's count and the pool total, the count is at
\* most the total.
C20_OddsAtMostTotal ==
    \A h \in Handlers :
        hs[h].reply.kind = "odds" => hs[h].reply.amt <= hs[h].reply.total

----------------------------------------------------------------------------
(* Properties of the audit log *)

\* The position in applied of the mutation that audit record k describes
LogAdd(k) == CHOOSE i \in AddsOf(ticket_log[k].cmd, ticket_log[k].target_id) : TRUE

\* The position of the last reset in applied, 0 when there was none
LastZero ==
    IF \E i \in 1..Len(applied) : applied[i].op = "zero"
    THEN CHOOSE i \in 1..Len(applied) :
            /\ applied[i].op = "zero"
            /\ \A j \in 1..Len(applied) : applied[j].op = "zero" => j <= i
    ELSE 0

\* The deltas of the first n audit records about u whose mutations committed after the
\* last reset, added up in id order from 0, each step clamped at zero
RECURSIVE Replay(_, _)
Replay(u, n) ==
    IF n = 0 THEN 0
    ELSE IF ticket_log[n].target_id = u /\ LogAdd(n) > LastZero
         THEN Clamp(Replay(u, n - 1), ticket_log[n].delta)
         ELSE Replay(u, n - 1)

\* Every mutation of u since the last reset was clamped and has its audit record
FullyAudited(u) ==
    \A i \in 1..Len(applied) :
        (applied[i].op = "add" /\ applied[i].target = u /\ i > LastZero) =>
            /\ applied[i].after = Clamp(applied[i].before, applied[i].delta)
            /\ LogsOf(applied[i].cmd, u) # {}

\* C21: the audit records about one target are in the audit log, by id, in the order
\* in which their deltas committed to the target's balance; and when every mutation of
\* the target since the last reset has its audit record, replaying the records' deltas
\* in id order, clamped at zero, gives the target's balance.
C21_AuditOrderIsCommitOrder ==
    /\ \A k1, k2 \in 1..Len(ticket_log) :
          (k1 < k2 /\ ticket_log[k1].target_id = ticket_log[k2].target_id)
              => LogAdd(k1) < LogAdd(k2)
    /\ \A u \in Users :
          FullyAudited(u) => Replay(u, Len(ticket_log)) = get_tickets(tickets, u)

=============================================================================
